---- MODULE Spec2Model ----
(***************************************************************************)
(* path-jail Python binding (src/src/lib.rs) over the path_jail resolver.  *)
(*                                                                         *)
(* The binding layer (extract_path, to_py_err, normalize_path,             *)
(* path_to_string, Jail.new/join/contains/relative and the one-shot join)  *)
(* is translated from lib.rs.  The resolver it calls (RustJail::new,       *)
(* join, contains, relative, ::path_jail::join) lives in the path_jail     *)
(* crate; it is modelled from sections 4.1-4.6 of the specification.       *)
(*                                                                         *)
(* A path is a record [pfx, comps]: pfx is the kind of its root ("rel" for *)
(* a relative path) and comps its components.  A Python string that is a   *)
(* path has the same shape, PathBuf::from(s) being structure preserving.   *)
(***************************************************************************)
EXTENDS Integers, Sequences, FiniteSets, TLC

VARIABLES
    vol,        \* build / volume: "posix", "disk" (C:\), "unc" (\\s\h\)
    fs,         \* the filesystem's variable part: [l |-> target of /jail/l]
    jail,       \* the Jail object: NoJail, or [root |-> canonical path]
    pc,         \* "idle", or "walking" while the resolver walks a join
    call,       \* the handler being run / last run: [op, root, path]
    w,          \* the walker's state (current, remaining, follow count, ...)
    resolverCalls, \* calls made into the resolver by the current handler
    result      \* what the last handler returned to Python

vars == <<vol, fs, jail, pc, call, w, resolverCalls, result>>

--------------------------------------------------------------------------
(* Bounds of the model *)

\* longest relative path (in components) handed to join / appended to the
\* root for contains and relative
MaxLen == 2

--------------------------------------------------------------------------
(* Names and their encodings *)

\* a component holding an embedded NUL character
NUL == "a<NUL>b"
\* a directory name that is not valid Unicode (a stray 0xFF byte on posix,
\* an unpaired surrogate on Windows), and its lossy rendering with U+FFFD
BAD == "j<FF>"
BADLOSSY == "j<U+FFFD>"

\* byte length of a component in the string the binding builds
NameLen(n) ==
    CASE n = "jail" -> 4
      [] n = "dd" -> 2
      [] n = "l" -> 1
      [] n = "gone" -> 4
      [] n = "out" -> 3
      [] n = "rl" -> 2
      [] n = "jail-evil" -> 9
      [] n = "n239" -> 239
      [] n = "n240" -> 240
      [] n = ".." -> 2
      [] n = "." -> 1
      [] n = BAD -> 2
      [] n = BADLOSSY -> 4
      [] n = NUL -> 3
      [] OTHER -> 1

\* to_string_lossy on one component
LossyName(n) == IF n = BAD THEN BADLOSSY ELSE n

HasNul(comps) == \E i \in 1..Len(comps) : comps[i] = NUL

Windows == vol # "posix"

\* prefix of a canonical (fs::canonicalize) path on this volume:
\* "/" on posix, \\?\C:\ on a Windows disk, \\?\UNC\s\h\ on a share
CanonPfx(v) ==
    CASE v = "posix" -> "root" [] v = "disk" -> "vdisk" [] v = "unc" -> "vunc"

\* prefix of an absolute path in conventional form: "/", C:\, \\s\h\
PlainPfx(v) ==
    CASE v = "posix" -> "root" [] v = "disk" -> "disk" [] v = "unc" -> "unc"

\* byte length of a prefix with its trailing separator
PfxLen(p) ==
    CASE p = "rel" -> 0
      [] p = "root" -> 1
      [] p = "disk" -> 3
      [] p = "vdisk" -> 7
      [] p = "unc" -> 6
      [] p = "vunc" -> 12

RECURSIVE SumLen(_)
SumLen(comps) ==
    IF comps = <<>> THEN 0 ELSE NameLen(Head(comps)) + SumLen(Tail(comps))

\* s.len() of the string form of a path
StrLen(p) ==
    PfxLen(p.pfx) + SumLen(p.comps)
        + (IF Len(p.comps) > 1 THEN Len(p.comps) - 1 ELSE 0)

IsAbs(p) == p.pfx # "rel"

IsPrefixSeq(a, b) == Len(a) <= Len(b) /\ SubSeq(b, 1, Len(a)) = a

Front(s) == SubSeq(s, 1, Len(s) - 1)

Pop(s) == IF s = <<>> THEN s ELSE Front(s)

--------------------------------------------------------------------------
(* The filesystem the resolver queries *)

NoLink == [present |-> FALSE, abs |-> FALSE, comps |-> <<>>]
Link(a, c) == [present |-> TRUE, abs |-> a, comps |-> c]

\* targets the symlink /jail/l may have
LTargets ==
    { NoLink,
      Link(TRUE, <<"out">>),              \* existing directory outside
      Link(TRUE, <<"out", "gone">>),      \* dangling, outside
      Link(TRUE, <<"jail", "dd">>),       \* absolute, existing, inside
      Link(TRUE, <<"jail", "gone">>),     \* absolute, dangling, inside
      Link(FALSE, <<"dd">>),              \* relative, existing, inside
      Link(FALSE, <<"gone">>),            \* dangling, inside
      Link(FALSE, <<"..">>),              \* the parent of the root
      Link(FALSE, <<"..", "gone">>),      \* dangling, beside the root
      Link(FALSE, <<"..", "jail", "dd">>),\* out of the root and back in
      Link(FALSE, <<"l">>) }              \* a cycle

\* lstat of a canonical absolute location: what the entry there is
Lookup(f, comps) ==
    CASE comps = <<>> -> [kind |-> "dir", target |-> NoLink]
      [] comps = <<"jail">> -> [kind |-> "dir", target |-> NoLink]
      [] comps = <<"jail", "dd">> -> [kind |-> "dir", target |-> NoLink]
      [] comps = <<"jail-evil">> -> [kind |-> "dir", target |-> NoLink]
      [] comps = <<"out">> -> [kind |-> "dir", target |-> NoLink]
      [] comps = <<BAD>> -> [kind |-> "dir", target |-> NoLink]
      [] comps = <<"rl">> ->
            [kind |-> "link", target |-> Link(TRUE, <<BAD>>)]
      [] comps = <<"jail", "l">> /\ f.l.present ->
            [kind |-> "link", target |-> f.l]
      [] OTHER -> [kind |-> "missing", target |-> NoLink]

\* the operating system's own bound on symlinks followed by one realpath
OsMaxLinks == 40

\* fs::canonicalize: every component must exist, every symlink is followed,
\* "." and ".." are resolved physically
RECURSIVE Canon(_, _, _, _)
Canon(f, cur, rest, fuel) ==
    IF rest = <<>> THEN [ok |-> TRUE, comps |-> cur]
    ELSE LET c == Head(rest)
             tl == Tail(rest)
         IN  IF c = "." THEN Canon(f, cur, tl, fuel)
             ELSE IF c = ".." THEN Canon(f, Pop(cur), tl, fuel)
             ELSE LET e == Lookup(f, Append(cur, c))
                  IN  CASE e.kind = "missing" -> [ok |-> FALSE, comps |-> <<>>]
                        [] e.kind = "dir" -> Canon(f, Append(cur, c), tl, fuel)
                        [] e.kind = "link" ->
                             IF fuel = 0 THEN [ok |-> FALSE, comps |-> <<>>]
                             ELSE Canon(f,
                                        IF e.target.abs THEN <<>> ELSE cur,
                                        e.target.comps \o tl, fuel - 1)

\* canonicalize a path value; relative paths start at the working
\* directory, which is the filesystem root here
canonicalize(f, p) ==
    LET r == Canon(f, <<>>, p.comps, OsMaxLinks)
    IN  IF r.ok THEN [ok |-> TRUE, path |-> [pfx |-> CanonPfx(vol), comps |-> r.comps]]
        ELSE [ok |-> FALSE, path |-> p]

\* Path::starts_with: comparison of whole components, prefix included
starts_with(p, base) == p.pfx = base.pfx /\ IsPrefixSeq(base.comps, p.comps)

\* "." and ".." taken at face value, no filesystem consulted
RECURSIVE LexNorm(_, _)
LexNorm(cur, rest) ==
    IF rest = <<>> THEN cur
    ELSE LET c == Head(rest)
         IN  IF c = "." THEN LexNorm(cur, Tail(rest))
             ELSE IF c = ".." THEN LexNorm(Pop(cur), Tail(rest))
             ELSE LexNorm(Append(cur, c), Tail(rest))

--------------------------------------------------------------------------
(* The resolver: JailError, RootResolver, SymlinkWalker, PathComposer,     *)
(* ContainmentChecker, RelativeDeriver                                     *)

EscapedRoot(attempted, root) ==
    [kind |-> "EscapedRoot", attempted |-> attempted, root |-> root]
BrokenSymlink(path) == [kind |-> "BrokenSymlink", path |-> path]
InvalidPath(reason) == [kind |-> "InvalidPath", reason |-> reason]
Io == [kind |-> "Io"]

Ok(path) == [ok |-> TRUE, path |-> path]
Err(e) == [ok |-> FALSE, err |-> e]

IsEmptyPath(p) == p.pfx = "rel" /\ p.comps = <<>>

\* cap on the symlinks followed by one walk
MaxSymlinks == 40

\* RootResolver: the canonical root of a new Jail
RustJail_new(f, p) ==
    IF IsEmptyPath(p) THEN Err(InvalidPath("empty path"))
    ELSE IF HasNul(p.comps) THEN Err(InvalidPath("null byte"))
    ELSE LET c == canonicalize(f, p)
         IN  IF c.ok THEN Ok(c.path) ELSE Err(Io)

NoWalk ==
    [root |-> <<>>, cur |-> <<>>, rest |-> <<>>, pend |-> 0, follows |-> 0,
     outerAt |-> <<>>, linkParent |-> <<>>, linkTarget |-> NoLink]

\* PathComposer: the checks made before the walk, and the walk's first state
JoinStart(root, p) ==
    IF IsEmptyPath(p) THEN [state |-> "err", err |-> InvalidPath("empty path")]
    ELSE IF HasNul(p.comps) THEN [state |-> "err", err |-> InvalidPath("null byte")]
    ELSE IF IsAbs(p) THEN
        [state |-> "err", err |-> InvalidPath("absolute paths not allowed")]
    ELSE [state |-> "more",
          st |-> [NoWalk EXCEPT !.root = root.comps, !.cur = root.comps,
                                !.rest = p.comps]]

\* containment check (d) and the end of the walk, after one component
AfterStep(st) ==
    IF st.pend = 0 /\ ~IsPrefixSeq(st.root, st.cur) THEN
        [state |-> "err", err |-> EscapedRoot(st.cur, st.root)]
    ELSE IF st.rest = <<>> THEN [state |-> "ok", path |-> st.cur]
    ELSE [state |-> "more", st |-> st]

\* a component of a symlink's target does not exist: the link is broken
BrokenLink(st, tl, pend1) ==
    LET isLast == Len(tl) - pend1 = 0
        face == LexNorm(IF st.linkTarget.abs THEN <<>> ELSE st.linkParent,
                        st.linkTarget.comps)
    IN  IF isLast /\ IsPrefixSeq(st.root, face)
        THEN [state |-> "ok", path |-> st.outerAt]
        ELSE [state |-> "err", err |-> BrokenSymlink(st.outerAt)]

\* the symlink at cand is followed: its target's components are walked next
FollowLink(st, cand, target, tl, pend1) ==
    IF st.follows >= MaxSymlinks THEN
        [state |-> "err", err |-> InvalidPath("too many symlinks")]
    ELSE AfterStep([st EXCEPT
            !.cur = IF target.abs THEN <<>> ELSE st.cur,
            !.rest = target.comps \o tl,
            !.pend = pend1 + Len(target.comps),
            !.follows = st.follows + 1,
            !.outerAt = IF st.pend > 0 THEN st.outerAt ELSE cand,
            !.linkParent = st.cur,
            !.linkTarget = target])

\* SymlinkWalker: one component of the walk
WalkStep(f, st) ==
    LET c == Head(st.rest)
        tl == Tail(st.rest)
        pend1 == IF st.pend > 0 THEN st.pend - 1 ELSE 0
        move(cur) == AfterStep([st EXCEPT !.cur = cur, !.rest = tl, !.pend = pend1])
    IN  IF c = "." THEN move(st.cur)
        ELSE IF c = ".." THEN move(Pop(st.cur))
        ELSE LET cand == Append(st.cur, c)
                 e == Lookup(f, cand)
             IN  CASE e.kind = "link" -> FollowLink(st, cand, e.target, tl, pend1)
                   [] e.kind = "dir" -> move(cand)
                   [] e.kind = "missing" ->
                        IF st.pend > 0 THEN BrokenLink(st, tl, pend1)
                        ELSE move(cand)

\* the whole walk, from a state of it to its result
RECURSIVE RunWalk(_, _)
RunWalk(f, r) ==
    IF r.state = "more" THEN RunWalk(f, WalkStep(f, r.st)) ELSE r

\* the result of a finished walk as the resolver returns it
WalkResult(r) ==
    IF r.state = "ok" THEN Ok([pfx |-> CanonPfx(vol), comps |-> r.path])
    ELSE Err(IF r.err.kind = "EscapedRoot"
             THEN EscapedRoot([pfx |-> CanonPfx(vol), comps |-> r.err.attempted],
                              [pfx |-> CanonPfx(vol), comps |-> r.err.root])
             ELSE IF r.err.kind = "BrokenSymlink"
             THEN BrokenSymlink([pfx |-> CanonPfx(vol), comps |-> r.err.path])
             ELSE r.err)

\* Jail::join of the resolver, start to finish
RustJail_join(f, root, p) == WalkResult(RunWalk(f, JoinStart(root, p)))

\* ContainmentChecker
RustJail_contains(f, root, p) ==
    IF IsEmptyPath(p) THEN Err(InvalidPath("empty path"))
    ELSE IF HasNul(p.comps) THEN Err(InvalidPath("null byte"))
    ELSE IF ~IsAbs(p) THEN Err(InvalidPath("path must be absolute"))
    ELSE LET c == canonicalize(f, p)
         IN  IF ~c.ok THEN Err(Io)
             ELSE IF starts_with(c.path, root) THEN Ok(c.path)
             ELSE Err(EscapedRoot(c.path, root))

\* RelativeDeriver
RustJail_relative(f, root, p) ==
    LET c == RustJail_contains(f, root, p)
    IN  IF ~c.ok THEN c
        ELSE Ok([pfx |-> "rel",
                 comps |-> SubSeq(c.path.comps, Len(root.comps) + 1,
                                  Len(c.path.comps))])

\* the resolver's one-shot join: a Jail made for one call
path_jail_join(f, rootp, p) ==
    LET j == RustJail_new(f, rootp)
    IN  IF ~j.ok THEN j ELSE RustJail_join(f, j.path, p)

--------------------------------------------------------------------------
(* The binding: src/src/lib.rs *)

LONG_PATH_THRESHOLD == 250

RECURSIVE LossyComps(_)
LossyComps(comps) ==
    IF comps = <<>> THEN <<>>
    ELSE <<LossyName(Head(comps))>> \o LossyComps(Tail(comps))

\* path.to_string_lossy(), and Path::display()
to_string_lossy(p) == [pfx |-> p.pfx, comps |-> LossyComps(p.comps)]

\* normalize_path with the threshold test off by one (>= for >)
normalize_path_off_by_one(p) ==
    IF ~Windows THEN p
    ELSE LET s == to_string_lossy(p)
         IN  IF s.pfx = "vunc" THEN
                 LET normalized == [s EXCEPT !.pfx = "unc"]
                 IN  IF StrLen(normalized) >= LONG_PATH_THRESHOLD THEN p
                     ELSE normalized
             ELSE IF s.pfx = "vdisk" THEN
                 LET stripped == [s EXCEPT !.pfx = "disk"]
                 IN  IF StrLen(stripped) >= LONG_PATH_THRESHOLD THEN p
                     ELSE stripped
             ELSE p

\* normalize_path: on Windows \\?\UNC\s\h\.. becomes \\s\h\.. and \\?\C:\..
\* becomes C:\.., unless the result is longer than the threshold
normalize_path(p) ==
    IF ~Windows THEN p
    ELSE LET s == to_string_lossy(p)
         IN  IF s.pfx = "vunc" THEN
                 LET normalized == [s EXCEPT !.pfx = "unc"]
                 IN  IF StrLen(normalized) > LONG_PATH_THRESHOLD THEN p
                     ELSE normalized
             ELSE IF s.pfx = "vdisk" THEN
                 LET stripped == [s EXCEPT !.pfx = "disk"]
                 IN  IF StrLen(stripped) > LONG_PATH_THRESHOLD THEN p
                     ELSE stripped
             ELSE p

path_to_string(p) == to_string_lossy(p)

PyOk(v) == [ok |-> TRUE, val |-> v]
PyErr(exc, msg) == [ok |-> FALSE, exc |-> exc, msg |-> msg]

NullByteMsg == [text |-> "path contains null byte (security risk)"]

\* validate_path without its test for NUL
validate_path_nocheck(s) == [ok |-> TRUE, path |-> s]

\* validate_path, the helper of extract_path
validate_path(s) ==
    IF HasNul(s.comps) THEN PyErr("ValueError", NullByteMsg)
    ELSE [ok |-> TRUE, path |-> s]

\* extract_path: a str, or an os.PathLike whose __fspath__ gives a str
extract_path(obj) ==
    IF obj.ty = "str" THEN validate_path(obj.s)
    ELSE IF obj.ty = "pathlike" THEN validate_path(obj.s)
    ELSE PyErr("TypeError", [text |-> "expected str or os.PathLike object"])

\* to_py_err raising IOError for EscapedRoot
to_py_err_escaped_as_io(err) ==
    CASE err.kind = "EscapedRoot" ->
            PyErr("IOError",
                  [text |-> "path escapes jail root",
                   attempted |-> to_string_lossy(err.attempted),
                   root |-> to_string_lossy(err.root)])
      [] err.kind = "BrokenSymlink" ->
            PyErr("ValueError",
                  [text |-> "broken symlink (cannot verify target)",
                   path |-> to_string_lossy(err.path)])
      [] err.kind = "InvalidPath" ->
            PyErr("ValueError", [text |-> "invalid path", reason |-> err.reason])
      [] err.kind = "Io" -> PyErr("IOError", [text |-> "io error"])
      [] OTHER -> PyErr("ValueError", [text |-> "path_jail error"])

\* to_py_err without its arm for BrokenSymlink, which the last arm takes
to_py_err_broken_unmatched(err) ==
    CASE err.kind = "EscapedRoot" ->
            PyErr("ValueError",
                  [text |-> "path escapes jail root",
                   attempted |-> to_string_lossy(err.attempted),
                   root |-> to_string_lossy(err.root)])
      [] err.kind = "InvalidPath" ->
            PyErr("ValueError", [text |-> "invalid path", reason |-> err.reason])
      [] err.kind = "Io" -> PyErr("IOError", [text |-> "io error"])
      [] OTHER -> PyErr("ValueError", [text |-> "path_jail error"])

\* to_py_err raising IOError for InvalidPath
to_py_err_invalid_as_io(err) ==
    CASE err.kind = "EscapedRoot" ->
            PyErr("ValueError",
                  [text |-> "path escapes jail root",
                   attempted |-> to_string_lossy(err.attempted),
                   root |-> to_string_lossy(err.root)])
      [] err.kind = "BrokenSymlink" ->
            PyErr("ValueError",
                  [text |-> "broken symlink (cannot verify target)",
                   path |-> to_string_lossy(err.path)])
      [] err.kind = "InvalidPath" ->
            PyErr("IOError", [text |-> "invalid path", reason |-> err.reason])
      [] err.kind = "Io" -> PyErr("IOError", [text |-> "io error"])
      [] OTHER -> PyErr("ValueError", [text |-> "path_jail error"])

to_py_err(err) ==
    CASE err.kind = "EscapedRoot" ->
            PyErr("ValueError",
                  [text |-> "path escapes jail root",
                   attempted |-> to_string_lossy(err.attempted),
                   root |-> to_string_lossy(err.root)])
      [] err.kind = "BrokenSymlink" ->
            PyErr("ValueError",
                  [text |-> "broken symlink (cannot verify target)",
                   path |-> to_string_lossy(err.path)])
      [] err.kind = "InvalidPath" ->
            PyErr("ValueError", [text |-> "invalid path", reason |-> err.reason])
      [] err.kind = "Io" -> PyErr("IOError", [text |-> "io error"])
      [] OTHER -> PyErr("ValueError", [text |-> "path_jail error"])

\* .map(normalize_path).map(path_to_string).map_err(to_py_err)
Boundary(r) ==
    IF r.ok THEN PyOk(path_to_string(normalize_path(r.path)))
    ELSE to_py_err(r.err)

\* what Python gets from Jail(...): the new object, not a path
JailObject == [pfx |-> "Jail", comps |-> <<>>]

NoJail == [made |-> FALSE, root |-> [pfx |-> "rel", comps |-> <<>>]]

\* Jail::new: [py |-> what Python sees, jail |-> the object, calls |-> calls
\* made into the resolver]
Jail_new(f, obj) ==
    LET path == extract_path(obj)
    IN  IF ~path.ok THEN [py |-> path, jail |-> NoJail, calls |-> 0]
        ELSE LET inner == RustJail_new(f, path.path)
             IN  IF ~inner.ok
                 THEN [py |-> to_py_err(inner.err), jail |-> NoJail, calls |-> 1]
                 ELSE [py |-> PyOk(JailObject),
                       jail |-> [made |-> TRUE, root |-> inner.path],
                       calls |-> 1]

\* Jail.root
Jail_root(j) == PyOk(path_to_string(normalize_path(j.root)))

\* Jail.join taking the leading separator off its argument before the
\* resolver sees it
Jail_join_enter_strips_root(j, obj) ==
    LET path == extract_path(obj)
    IN  IF ~path.ok THEN [done |-> TRUE, py |-> path, calls |-> 0]
        ELSE LET start == JoinStart(j.root, [path.path EXCEPT !.pfx = "rel"])
             IN  IF start.state = "more"
                 THEN [done |-> FALSE, start |-> start, calls |-> 1]
                 ELSE [done |-> TRUE, py |-> Boundary(WalkResult(start)),
                       calls |-> 1]

\* Jail.join up to the resolver's walk: the argument is extracted and
\* inner.join entered; done when the call is over before any walking
Jail_join_enter(j, obj) ==
    LET path == extract_path(obj)
    IN  IF ~path.ok THEN [done |-> TRUE, py |-> path, calls |-> 0]
        ELSE LET start == JoinStart(j.root, path.path)
             IN  IF start.state = "more"
                 THEN [done |-> FALSE, start |-> start, calls |-> 1]
                 ELSE [done |-> TRUE, py |-> Boundary(WalkResult(start)),
                       calls |-> 1]

\* Jail.join, start to finish
Jail_join(f, j, obj) ==
    LET e == Jail_join_enter(j, obj)
    IN  IF e.done THEN [py |-> e.py, calls |-> e.calls]
        ELSE [py |-> Boundary(WalkResult(RunWalk(f, e.start))), calls |-> 1]

\* Jail.contains calling self.inner.root().join(path), the unchecked join of
\* std::path, in place of self.inner.contains(path)
Jail_contains_unchecked(f, j, obj) ==
    LET path == extract_path(obj)
    IN  IF ~path.ok THEN [py |-> path, calls |-> 0]
        ELSE [py |-> Boundary(Ok(IF IsAbs(path.path) THEN path.path
                                 ELSE [pfx |-> j.root.pfx,
                                       comps |-> j.root.comps \o path.path.comps])),
              calls |-> 1]

\* Jail.contains
Jail_contains(f, j, obj) ==
    LET path == extract_path(obj)
    IN  IF ~path.ok THEN [py |-> path, calls |-> 0]
        ELSE [py |-> Boundary(RustJail_contains(f, j.root, path.path)),
              calls |-> 1]

\* Jail.relative calling self.inner.contains (a line copied from contains)
Jail_relative_as_contains(f, j, obj) ==
    LET path == extract_path(obj)
    IN  IF ~path.ok THEN [py |-> path, calls |-> 0]
        ELSE [py |-> Boundary(RustJail_contains(f, j.root, path.path)),
              calls |-> 1]

\* Jail.relative
Jail_relative(f, j, obj) ==
    LET path == extract_path(obj)
    IN  IF ~path.ok THEN [py |-> path, calls |-> 0]
        ELSE [py |-> Boundary(RustJail_relative(f, j.root, path.path)),
              calls |-> 1]

\* the module's join extracting its path before its root
join_enter_path_first(f, robj, pobj) ==
    LET path == extract_path(pobj)
    IN  IF ~path.ok THEN [done |-> TRUE, py |-> path, calls |-> 0]
        ELSE LET root == extract_path(robj)
             IN  IF ~root.ok THEN [done |-> TRUE, py |-> root, calls |-> 0]
                 ELSE LET j == RustJail_new(f, root.path)
                          start == JoinStart(j.path, path.path)
                      IN  IF ~j.ok
                          THEN [done |-> TRUE, py |-> Boundary(j), calls |-> 1]
                          ELSE IF start.state = "more"
                          THEN [done |-> FALSE, start |-> start, calls |-> 1]
                          ELSE [done |-> TRUE,
                                py |-> Boundary(WalkResult(start)), calls |-> 1]

\* the module's join(root, path) up to the resolver's walk: both arguments
\* are extracted, then ::path_jail::join makes the Jail and enters its join
join_enter(f, robj, pobj) ==
    LET root == extract_path(robj)
    IN  IF ~root.ok THEN [done |-> TRUE, py |-> root, calls |-> 0]
        ELSE LET path == extract_path(pobj)
             IN  IF ~path.ok THEN [done |-> TRUE, py |-> path, calls |-> 0]
                 ELSE LET j == RustJail_new(f, root.path)
                          start == JoinStart(j.path, path.path)
                      IN  IF ~j.ok
                          THEN [done |-> TRUE, py |-> Boundary(j), calls |-> 1]
                          ELSE IF start.state = "more"
                          THEN [done |-> FALSE, start |-> start, calls |-> 1]
                          ELSE [done |-> TRUE,
                                py |-> Boundary(WalkResult(start)), calls |-> 1]

\* the module's join(root, path), start to finish
join(f, robj, pobj) ==
    LET e == join_enter(f, robj, pobj)
    IN  IF e.done THEN [py |-> e.py, calls |-> e.calls]
        ELSE [py |-> Boundary(WalkResult(RunWalk(f, e.start))), calls |-> 1]

--------------------------------------------------------------------------
(* The arguments Python code passes *)

Str(p) == [ty |-> "str", s |-> p]
PathLike(p) == [ty |-> "pathlike", s |-> p]
Other == [ty |-> "other", s |-> [pfx |-> "rel", comps |-> <<>>]]
NoArg == [ty |-> "none", s |-> [pfx |-> "rel", comps |-> <<>>]]

Rel(c) == [pfx |-> "rel", comps |-> c]
Abs(c) == [pfx |-> PlainPfx(vol), comps |-> c]
Verbatim(c) == [pfx |-> CanonPfx(vol), comps |-> c]

Names == {"dd", "l", "n239", "n240", "..", ".", "jail"}

RelSeqs == UNION { [1..n -> Names] : n \in 1..MaxLen }

\* arguments of Jail.join and of the path of the one-shot join
JoinArgs ==
    { Str(Rel(c)) : c \in RelSeqs }
    \cup { Str(Rel(<<>>)), Str(Abs(<<"jail", "dd">>)), Str(Abs(<<"out">>)),
           Str(Verbatim(<<"jail", "dd">>)),
           Str(Rel(<<NUL>>)), Str(Rel(<<"dd", NUL>>)), Str(Abs(<<"jail", NUL>>)),
           PathLike(Rel(<<"dd">>)), PathLike(Rel(<<NUL>>)), Other }

\* arguments of Jail.contains and Jail.relative
AbsArgs ==
    { Str(Abs(<<"jail">> \o c)) : c \in RelSeqs }
    \cup { Str(Abs(<<"jail">>)), Str(Abs(<<>>)), Str(Abs(<<"out">>)),
           Str(Abs(<<"jail-evil">>)), Str(Abs(<<"rl">>)),
           Str(Abs(<<"rl", "..", "jail">>)), Str(Abs(<<BADLOSSY>>)),
           Str(Verbatim(<<"jail", "dd">>)),
           Str(Rel(<<"jail">>)), Str(Rel(<<>>)),
           Str(Abs(<<"jail", NUL>>)), Str(Rel(<<NUL>>)),
           PathLike(Abs(<<"jail", "dd">>)), PathLike(Abs(<<"jail", NUL>>)),
           Other }

\* arguments of Jail(...) and of the root of the one-shot join
RootArgs ==
    { Str(Abs(<<"jail">>)), Str(Abs(<<"rl">>)), Str(Abs(<<"gone">>)),
      Str(Rel(<<>>)), Str(Abs(<<"jail", NUL>>)),
      PathLike(Abs(<<"jail">>)), Other }

--------------------------------------------------------------------------
(* The state machine *)

Pending == [ok |-> FALSE, exc |-> "pending", msg |-> [text |-> ""]]
NoResult == [ok |-> FALSE, exc |-> "none", msg |-> [text |-> ""]]
NoCall == [op |-> "none", root |-> NoArg, path |-> NoArg]

Init ==
    /\ vol \in {"posix", "disk", "unc"}
    /\ fs \in [l : LTargets]
    /\ jail = NoJail
    /\ pc = "idle"
    /\ call = NoCall
    /\ w = NoWalk
    /\ resolverCalls = 0
    /\ result = NoResult

\* Jail(root)
Construct(obj) ==
    /\ pc = "idle" /\ call = NoCall
    /\ LET r == Jail_new(fs, obj)
       IN  /\ jail' = IF r.py.ok THEN r.jail ELSE jail
           /\ result' = r.py
           /\ resolverCalls' = r.calls
    /\ call' = [op |-> "new", root |-> obj, path |-> NoArg]
    /\ w' = NoWalk
    /\ UNCHANGED <<vol, fs, pc>>

\* jail.root
GetRoot ==
    /\ pc = "idle" /\ call = NoCall
    /\ jail.made
    /\ result' = Jail_root(jail)
    /\ resolverCalls' = 0
    /\ call' = [op |-> "root", root |-> NoArg, path |-> NoArg]
    /\ w' = NoWalk
    /\ UNCHANGED <<vol, fs, jail, pc>>

\* a join handler has run up to the walk of the resolver
EnterWalk(e) ==
    /\ resolverCalls' = e.calls
    /\ IF e.done
       THEN /\ pc' = "idle"
            /\ w' = NoWalk
            /\ result' = e.py
       ELSE /\ pc' = "walking"
            /\ w' = e.start.st
            /\ result' = Pending

\* jail.join(path), up to the first component of the walk
JoinBegin(obj) ==
    /\ pc = "idle" /\ call = NoCall
    /\ jail.made
    /\ call' = [op |-> "join", root |-> NoArg, path |-> obj]
    /\ EnterWalk(Jail_join_enter(jail, obj))
    /\ UNCHANGED <<vol, fs, jail>>

\* join(root, path), up to the first component of the walk
OneShotBegin(robj, pobj) ==
    /\ pc = "idle" /\ call = NoCall
    /\ call' = [op |-> "join1", root |-> robj, path |-> pobj]
    /\ EnterWalk(join_enter(fs, robj, pobj))
    /\ UNCHANGED <<vol, fs, jail>>

\* one component of the walk; the last one returns through the boundary
Walk ==
    /\ pc = "walking"
    /\ LET r == WalkStep(fs, w)
       IN  IF r.state = "more"
           THEN /\ w' = r.st
                /\ UNCHANGED <<pc, result>>
           ELSE /\ pc' = "idle"
                /\ result' = Boundary(WalkResult(r))
                /\ UNCHANGED w
    /\ UNCHANGED <<vol, fs, jail, call, resolverCalls>>

\* jail.contains(path)
Contains(obj) ==
    /\ pc = "idle" /\ call = NoCall
    /\ jail.made
    /\ LET r == Jail_contains(fs, jail, obj)
       IN  /\ result' = r.py
           /\ resolverCalls' = r.calls
    /\ call' = [op |-> "contains", root |-> NoArg, path |-> obj]
    /\ w' = NoWalk
    /\ UNCHANGED <<vol, fs, jail, pc>>

\* jail.relative(path)
Relative(obj) ==
    /\ pc = "idle" /\ call = NoCall
    /\ jail.made
    /\ LET r == Jail_relative(fs, jail, obj)
       IN  /\ result' = r.py
           /\ resolverCalls' = r.calls
    /\ call' = [op |-> "relative", root |-> NoArg, path |-> obj]
    /\ w' = NoWalk
    /\ UNCHANGED <<vol, fs, jail, pc>>

\* the caller takes the result of the finished call; the next call may start
Return ==
    /\ pc = "idle"
    /\ call # NoCall
    /\ call' = NoCall
    /\ result' = NoResult
    /\ resolverCalls' = 0
    /\ w' = NoWalk
    /\ UNCHANGED <<vol, fs, jail, pc>>

\* no call is running and the last result has been taken
CanCall == pc = "idle" /\ call = NoCall

Next ==
    \/ CanCall /\ \E obj \in RootArgs : Construct(obj)
    \/ GetRoot
    \/ CanCall /\ jail.made /\ \E obj \in JoinArgs : JoinBegin(obj)
    \/ CanCall /\ \E robj \in RootArgs, pobj \in JoinArgs : OneShotBegin(robj, pobj)
    \/ Walk
    \/ CanCall /\ jail.made /\ \E obj \in AbsArgs : Contains(obj)
    \/ CanCall /\ jail.made /\ \E obj \in AbsArgs : Relative(obj)
    \/ Return

Spec == Init /\ [][Next]_vars

--------------------------------------------------------------------------
(* Properties *)

Done(op) == pc = "idle" /\ call.op = op
Returned(op) == Done(op) /\ result.ok

\* the conventional form of a prefix: \\?\C:\ and C:\ name the same volume
PlainOf(pfx) ==
    CASE pfx = "vdisk" -> "disk" [] pfx = "vunc" -> "unc" [] OTHER -> pfx

ValidUnicode(comps) == LossyComps(comps) = comps

\* s lies beneath base, whole components compared, on the same volume
Descends(s, base) ==
    /\ PlainOf(s.pfx) = PlainOf(base.pfx)
    /\ IsPrefixSeq(base.comps, s.comps)

IsEscapedRoot(r) ==
    ~r.ok /\ r.exc = "ValueError" /\ r.msg.text = "path escapes jail root"
IsBrokenSymlink(r) ==
    ~r.ok /\ r.exc = "ValueError"
          /\ r.msg.text = "broken symlink (cannot verify target)"
IsInvalidPath(r) ==
    ~r.ok /\ r.exc = "ValueError" /\ r.msg.text = "invalid path"
IsNullByte(r) == ~r.ok /\ r.exc = "ValueError" /\ r.msg = NullByteMsg
IsIo(r) == ~r.ok /\ r.exc = "IOError"

\* the argument is a relative, non-empty path without NUL: the walk starts
Walkable(obj) ==
    /\ obj.ty \in {"str", "pathlike"}
    /\ obj.s.pfx = "rel" /\ obj.s.comps # <<>> /\ ~HasNul(obj.s.comps)

Occurs(n, comps) == \E i \in 1..Len(comps) : comps[i] = n

\* levels gained below the root by the first i components, read literally
RECURSIVE Depth(_, _)
Depth(comps, i) ==
    IF i = 0 THEN 0
    ELSE Depth(comps, i - 1)
            + (IF comps[i] = ".." THEN -1 ELSE IF comps[i] = "." THEN 0 ELSE 1)

\* some leading part of the path climbs above where it started
ClimbsAbove(comps) == \E i \in 1..Len(comps) : Depth(comps, i) < 0

\* C2: the containment check runs after every component of a join; a path
\* that leaves the root at some step fails there with EscapedRoot carrying
\* the path reached and the root, and ".." is never clamped at the root.
C2_EscapeCaughtAtEachStep ==
    /\ (pc = "walking" /\ w.pend = 0) => IsPrefixSeq(w.root, w.cur)
    /\ (Done("join") /\ IsEscapedRoot(result)) =>
          /\ result.msg.root = to_string_lossy(jail.root)
          /\ result.msg.attempted.pfx = jail.root.pfx
          /\ ~IsPrefixSeq(result.msg.root.comps, result.msg.attempted.comps)
    /\ (Done("join") /\ Walkable(call.path)) =>
          LET comps == call.path.s.comps
          IN  /\ comps[1] = ".." => IsEscapedRoot(result)
              /\ (~fs.l.present \/ ~Occurs("l", comps)) =>
                    /\ IsEscapedRoot(result) <=> ClimbsAbove(comps)
                    /\ ClimbsAbove(comps) =>
                          result.msg.attempted.comps =
                              LossyComps(Pop(jail.root.comps))

\* join("../jail") has failed with EscapedRoot although, read as a whole,
\* the path comes back to the root
C2_Witness ==
    /\ Done("join")
    /\ call.path.s.comps = <<"..", "jail">>
    /\ jail.root.comps = <<"jail">>
    /\ IsEscapedRoot(result)
    /\ result.msg.attempted.comps = <<>>

\* the walk of comps from /jail reaches the symlink /jail/l: some component
\* is "l" and the components before it, none a symlink, lead back to /jail
CrossesAt(comps, i) ==
    /\ comps[i] = "l"
    /\ \A j \in 1..(i - 1) : comps[j] # "l"
    /\ ~ClimbsAbove(SubSeq(comps, 1, i - 1))
    /\ LexNorm(<<>>, SubSeq(comps, 1, i - 1)) = <<>>

Crosses(comps) == \E i \in 1..Len(comps) : CrossesAt(comps, i)

\* where the target of /jail/l points, read literally from /jail
LFace == LexNorm(IF fs.l.abs THEN <<>> ELSE <<"jail">>, fs.l.comps)

\* /jail/l is a symlink whose target lies outside /jail
LOutside == fs.l.present /\ ~IsPrefixSeq(<<"jail">>, LFace)

\* the target of /jail/l exists / does not exist
LExists == fs.l.present /\ Canon(fs, <<>>, <<"jail", "l">>, OsMaxLinks).ok
LDangling == fs.l.present /\ Lookup(fs, LFace).kind = "missing"

\* the join that has just finished walked from /jail across /jail/l
JoinCrossed ==
    /\ pc = "idle" /\ call.op \in {"join", "join1"}
    /\ Walkable(call.path)
    /\ w.root = <<"jail">>
    /\ Crosses(call.path.s.comps)

\* the contains that has just finished was given /jail/.. across /jail/l
ContainsCrossed ==
    /\ Done("contains") /\ jail.root.comps = <<"jail">>
    /\ call.path.ty \in {"str", "pathlike"} /\ IsAbs(call.path.s)
    /\ ~HasNul(call.path.s.comps)
    /\ Len(call.path.s.comps) >= 2 /\ Head(call.path.s.comps) = "jail"
    /\ Crosses(Tail(call.path.s.comps))

DanglingInside == {Link(TRUE, <<"jail", "gone">>), Link(FALSE, <<"gone">>)}
DanglingOutside == {Link(TRUE, <<"out", "gone">>), Link(FALSE, <<"..", "gone">>)}

\* C4: a join meeting a dangling symlink before the last component of its
\* input fails with BrokenSymlink; meeting it as the last component it
\* returns the path of the link itself exactly when the link's target, read
\* literally, stays inside R, and fails with BrokenSymlink otherwise.
C4_DanglingSymlink ==
    (JoinCrossed /\ fs.l \in DanglingInside \cup DanglingOutside) =>
        LET comps == call.path.s.comps
            last == CrossesAt(comps, Len(comps))
        IN  /\ ~last => IsBrokenSymlink(result)
            /\ (last /\ fs.l \in DanglingOutside) => IsBrokenSymlink(result)
            /\ (last /\ fs.l \in DanglingInside) =>
                  /\ result.ok
                  /\ result.val.comps = <<"jail", "l">>
            /\ IsBrokenSymlink(result) =>
                  result.msg.path.comps = <<"jail", "l">>

\* join("l") has returned /jail/l, a dangling link to /jail/gone
C4_Witness ==
    /\ JoinCrossed /\ call.op = "join"
    /\ fs.l = Link(FALSE, <<"gone">>)
    /\ call.path.s.comps = <<"l">>
    /\ result.ok /\ result.val.comps = <<"jail", "l">>

PathValued(obj) == obj.ty \in {"str", "pathlike"}

\* the arguments of the call, all path-valued, and one holds a NUL
NulArgument ==
    /\ pc = "idle"
    /\ call.op \in {"new", "join", "contains", "relative", "join1"}
    /\ \A a \in {call.root, call.path} : a.ty # "none" => PathValued(a)
    /\ \E a \in {call.root, call.path} : PathValued(a) /\ HasNul(a.s.comps)

\* C5: in every operation a path argument with an embedded NUL is rejected
\* with the null-byte ValueError by extract_path, before the handler has
\* made any call into the resolver.
C5_NulRejectedBeforeResolver ==
    NulArgument => (IsNullByte(result) /\ resolverCalls = 0)

\* join("/gone", "a<NUL>b") was rejected for the NUL in its path although
\* its root does not exist; the resolver was not called
C5_Witness ==
    /\ NulArgument /\ call.op = "join1"
    /\ call.root.s.comps = <<"gone">>
    /\ HasNul(call.path.s.comps)
    /\ IsNullByte(result) /\ resolverCalls = 0

\* the join that has just finished was given an absolute path; for the
\* one-shot join the root argument is one a Jail can be made of
AbsoluteJoin ==
    /\ pc = "idle" /\ call.op \in {"join", "join1"}
    /\ PathValued(call.path) /\ IsAbs(call.path.s) /\ ~HasNul(call.path.s.comps)
    /\ call.op = "join1" => Jail_new(fs, call.root).py.ok

\* C6: Jail.join and the one-shot join fail with InvalidPath for every
\* absolute path, also one that exists inside the root; no join given an
\* absolute path returns a path.
C6_AbsoluteRejected ==
    /\ AbsoluteJoin =>
          (IsInvalidPath(result) /\ result.msg.reason = "absolute paths not allowed")
    /\ ( /\ pc = "idle" /\ call.op \in {"join", "join1"}
         /\ PathValued(call.path) /\ IsAbs(call.path.s) ) => ~result.ok

\* jail.join("/jail/dd") was rejected although /jail/dd exists inside /jail
C6_Witness ==
    /\ AbsoluteJoin /\ call.op = "join"
    /\ jail.root.comps = <<"jail">>
    /\ call.path.s.comps = <<"jail", "dd">>
    /\ Lookup(fs, <<"jail", "dd">>).kind = "dir"
    /\ IsInvalidPath(result)

\* the Jail.join that has just finished walked a path that met no symlink
PlainJoin ==
    /\ Done("join") /\ Walkable(call.path)
    /\ ~fs.l.present \/ ~Occurs("l", call.path.s.comps)

\* the round trip through contains and relative of a returned path
RoundTrip(P) ==
    /\ result.ok
    /\ PlainOf(result.val.pfx) = PlainOf(jail.root.pfx)
    /\ result.val.comps = jail.root.comps \o LexNorm(<<>>, P)
    /\ Lookup(fs, result.val.comps).kind # "missing" =>
          /\ Jail_contains(fs, jail, Str(result.val)).py = result
          /\ Jail_relative(fs, jail, Str(result.val)).py
                = PyOk(Rel(LexNorm(<<>>, P)))

\* C7: for every root R and relative path P without symlinks that stays
\* in R, join(R, P) is canonical(R) followed by P's normalized components;
\* when that path exists contains gives it back and relative gives P,
\* normalized.
C7_RoundTripEveryRoot ==
    (PlainJoin /\ ~ClimbsAbove(call.path.s.comps)) =>
        RoundTrip(call.path.s.comps)

\* the part of the law that the code keeps (no claim's formula): the round
\* trip holds whenever the components of canonical(R) are valid Unicode
RoundTripUnicodeRoot ==
    (PlainJoin /\ ~ClimbsAbove(call.path.s.comps)
               /\ ValidUnicode(jail.root.comps)) =>
        RoundTrip(call.path.s.comps)

\* Jail(root) followed by its join(path), on the filesystem as it is
TwoStep(f, robj, pobj) ==
    LET j == Jail_new(f, robj)
    IN  IF ~j.py.ok THEN j.py ELSE Jail_join(f, j.jail, pobj).py

\* C8 as stated: the one-shot join gives what Jail(root) followed by
\* join(path) gives, the same path or the same error, for every pair of
\* arguments.
C8_OneShotIsTwoStep ==
    Done("join1") => result = TwoStep(fs, call.root, call.path)

\* both arguments are at fault: the root passes extract_path but no Jail
\* can be made of it, and the path is rejected by extract_path
BothAtFault(robj, pobj) ==
    /\ extract_path(robj).ok
    /\ ~Jail_new(fs, robj).py.ok
    /\ ~extract_path(pobj).ok

\* C8, amended: the one-shot join gives what Jail(root) followed by
\* join(path) gives, except when both arguments are at fault; then the
\* one-shot join, which extracts both arguments before it touches the
\* filesystem, reports the path's error (the null-byte ValueError or the
\* TypeError) where Jail(root) reports the root's.
C8_OneShotIsTwoStepButForOrder ==
    Done("join1") =>
        IF BothAtFault(call.root, call.path)
        THEN result = extract_path(call.path)
        ELSE result = TwoStep(fs, call.root, call.path)

\* join("/jail", "l/n239") has walked across /jail/l and returned a path
C8_Witness ==
    /\ Done("join1")
    /\ call.root = Str(Abs(<<"jail">>))
    /\ call.path = Str(Rel(<<"l", "n239">>))
    /\ fs.l = Link(FALSE, <<"dd">>)
    /\ result.ok /\ result.val.comps = <<"jail", "dd", "n239">>

\* /jail/l is a symlink to itself
LCycle == fs.l = Link(FALSE, <<"l">>)

\* what a walk has left to do: the follows it may still make, then the
\* components it still has to take
WalkFollowsLeft == MaxSymlinks - w.follows
WalkCompsLeft == Len(w.rest)

\* C9: the walk of a join terminates on every filesystem: the symlinks it
\* follows are counted over the whole walk and never exceed the cap of 40;
\* a walk under way always has a component to take, so its next step is
\* enabled, and every step either follows a symlink or takes a component
\* off the path, so that the pair (follows left, components left)
\* decreases and the walk ends; a walk caught in a cycle fails with
\* InvalidPath once the cap is reached.
C9_WalkTerminates ==
    /\ [](pc = "walking" => (w.follows <= MaxSymlinks /\ w.rest # <<>>))
    /\ [][(pc = "walking" /\ pc' = "walking") =>
            \/ WalkFollowsLeft' < WalkFollowsLeft
            \/ WalkFollowsLeft' = WalkFollowsLeft /\ WalkCompsLeft' < WalkCompsLeft]_vars
    /\ []((JoinCrossed /\ LCycle) =>
            (IsInvalidPath(result) /\ result.msg.reason = "too many symlinks"
                /\ w.follows = MaxSymlinks))

\* join("l/dd") has given up on the cycle /jail/l -> l after 40 follows
C9_Witness ==
    /\ JoinCrossed /\ LCycle
    /\ call.path.s.comps = <<"l", "dd">>
    /\ w.follows = MaxSymlinks
    /\ IsInvalidPath(result)

\* every argument of the finished call passed extract_path: the resolver
\* was called
ArgsExtracted ==
    /\ pc = "idle"
    /\ call.op \in {"join", "join1", "contains", "relative"}
    /\ extract_path(call.path).ok
    /\ call.op = "join1" => extract_path(call.root).ok

\* what the resolver, called directly, makes of the arguments of the call
ResolverOutcome ==
    CASE call.op = "join" -> RustJail_join(fs, jail.root, call.path.s)
      [] call.op = "join1" -> path_jail_join(fs, call.root.s, call.path.s)
      [] call.op = "contains" -> RustJail_contains(fs, jail.root, call.path.s)
      [] call.op = "relative" -> RustJail_relative(fs, jail.root, call.path.s)

\* the conventional form of a path: the extended-length prefix taken off
Conventional(p) == [pfx |-> PlainOf(p.pfx), comps |-> LossyComps(p.comps)]

\* a resolved path as it is shown to Python
Presented(p) ==
    IF p.pfx \in {"vdisk", "vunc"} /\ StrLen(Conventional(p)) <= 250
    THEN Conventional(p)
    ELSE [pfx |-> p.pfx, comps |-> LossyComps(p.comps)]

\* C10: normalize_path only presents what the resolver has already
\* decided: a call succeeds exactly when the resolver does and fails with
\* the resolver's own error, whose paths are shown as the resolver gave
\* them; a returned path is the resolved path with the extended-length
\* prefix taken off when the conventional form has at most 250 bytes, and
\* with the prefix kept otherwise; a path without that prefix is returned
\* as it is.
C10_NormalizationIsPresentation ==
    /\ ArgsExtracted =>
          LET r == ResolverOutcome
          IN  /\ result.ok <=> r.ok
              /\ ~r.ok => result = to_py_err(r.err)
              /\ r.ok => result.val = Presented(r.path)
              /\ (r.ok /\ r.path.pfx \notin {"vdisk", "vunc"}) =>
                    result.val = to_string_lossy(r.path)
    /\ (pc = "idle" /\ IsEscapedRoot(result)) =>
          /\ result.msg.attempted.pfx = CanonPfx(vol)
          /\ result.msg.root.pfx = CanonPfx(vol)
    /\ Done("root") => result.val = Presented(jail.root)

\* on a Windows disk join("dd/n240") has returned \\?\C:\jail\dd\n240 with
\* its prefix: C:\jail\dd\n240 would have 251 bytes
C10_Witness ==
    /\ ArgsExtracted /\ call.op = "join" /\ vol = "disk"
    /\ call.path.s.comps = <<"dd", "n240">>
    /\ result.ok /\ result.val.pfx = "vdisk"
    /\ StrLen(Conventional(result.val)) = 251

====
